---- MODULE Spec2Model ----
(***************************************************************************)
(* A model of mrr::Cache (src/cache.hxx) with its concurrency policies      *)
(* (src/concurrency_control_policies.hxx) and the default serialization    *)
(* policy OstreamOverload (src/serialization_policies.hxx), for             *)
(* Key = int and Value = std::string, and the filename function of the     *)
(* demo programs, data/<key>/value.txt.                                    *)
(*                                                                         *)
(* Spec    : one caller, NoConcurrencyControl (every lock is a no-op), so   *)
(*           each public operation is one atomic action.                   *)
(* SpecEL  : EntryLocking, ELThreads threads, each call split at every      *)
(*           mutex operation.                                              *)
(* SpecKeys: EntryLocking, three threads that only call operator[] and      *)
(*           refresh.                                                      *)
(***************************************************************************)
EXTENDS Integers, Sequences, FiniteSets, TLC

\* ------------------------------------------------------------------ bounds
\* Longest std::string (in memory or as file content) that is explored.
MaxLen == 1
\* Calls each thread makes under EntryLocking.
MaxCalls == 2
\* Calls all threads together make under the fair specification.
MaxLiveCalls == 3

\* The keys in use (Key = int).
Keys == {1, 2}
\* One non-whitespace and one whitespace character.
Char == {"a", " "}
\* All strings up to MaxLen.
Strings == UNION {[1..n -> Char] : n \in 0..MaxLen}

\* ------------------------------------------------------------ filesystem
\* The state of the directory data/<k> (or of its copy in the trash tree):
\* absent, a directory without value.txt, or a directory with value.txt.
NoDir == [dir |-> FALSE, file |-> FALSE, data |-> <<>>]
EmptyDir == [dir |-> TRUE, file |-> FALSE, data |-> <<>>]
File(bytes) == [dir |-> TRUE, file |-> TRUE, data |-> bytes]

\* ------------------------------------------------------ in-memory entries
\* m_cache[k]: no entry in the std::map, an entry holding nullptr, or an
\* entry holding a shared_ptr to a value.
NoEntry == [in |-> FALSE, ptr |-> FALSE, val |-> <<>>]
NullPtr == [in |-> TRUE, ptr |-> FALSE, val |-> <<>>]
Present(v) == [in |-> TRUE, ptr |-> TRUE, val |-> v]

\* What a call returned: ok is the bool (or ptr != nullptr), val the value
\* (or the getter's result), threw tells that an exception left the call.
Ret(ok, val) == [ok |-> ok, val |-> val, threw |-> FALSE]
Threw == [ok |-> FALSE, val |-> <<>>, threw |-> TRUE]
Void == Ret(TRUE, <<>>)

VARIABLES
  m_cache,        \* Cache::m_cache
  disk,           \* disk[k]: the directory data/<k> and its value.txt
  trash,          \* trash[k]: the directory data/trash/data/<k>
  trashRoot,      \* whether data/trash/data exists
  last,           \* Spec: the call made last, its key and how it ended
  global_mutex_,  \* EntryLocking::global_mutex_: its owner, or Free
  entry_mutexes_, \* EntryLocking::entry_mutexes_: per key NoMutex, Free or owner
  locked_,        \* CollectionMutex::locked_
  owner_thread_,  \* CollectionMutex::owner_thread_
  pc,             \* per thread: where it is in its call
  call,           \* per thread: the call it is making
  nest,           \* per thread: 0 in the public call, 1 in the call it makes
  ret,            \* per thread: what its last call returned
  ptr,            \* per thread: the shared_ptr operator[] returned to it
  iter,           \* per thread: the last key the loop of lock() has locked
  calls,          \* per thread: calls started so far
  known,          \* per thread: the keys that had a mutex when its LockAll() began
  stray           \* whether some unlock() was called on a mutex another thread held

fsvars == <<disk, trash, trashRoot>>
lockvars == <<global_mutex_, entry_mutexes_, locked_, owner_thread_>>
threadvars == <<pc, call, nest, ret, ptr, iter, calls, known, stray>>
vars == <<m_cache, disk, trash, trashRoot, last, global_mutex_, entry_mutexes_,
          locked_, owner_thread_, pc, call, nest, ret, ptr, iter, calls, known, stray>>

\* ------------------------------------------------------ serialization
\* std::isspace for the characters in use.
IsSpace(c) == c = " "

\* OstreamOverload::Serialize: os << v writes the characters of v.
Serialize(v) == v

RECURSIVE SkipWs(_)
\* operator>> first skips leading whitespace.
SkipWs(s) == IF s # <<>> /\ IsSpace(Head(s)) THEN SkipWs(Tail(s)) ELSE s

RECURSIVE Token(_)
\* ... and then extracts characters up to the next whitespace or the end.
Token(s) == IF s = <<>> \/ IsSpace(Head(s)) THEN <<>>
            ELSE <<Head(s)>> \o Token(Tail(s))

\* OstreamOverload::Deserialize: is >> v into a default-constructed string
\* (when nothing is extracted v stays empty).
Deserialize(bytes) == Token(SkipWs(bytes))

\* --------------------------------------------------- private helpers
\* Cache::loadFromDisk
loadFromDisk(d, k) ==
  IF d[k].file THEN Present(Deserialize(d[k].data)) ELSE NullPtr

\* writeToDisk with a stream opened in append mode.
writeToDisk_appends(d, k, v) ==
  IF d[k].dir THEN [d EXCEPT ![k] = File(d[k].data \o Serialize(v))] ELSE d

\* Cache::writeToDisk: std::ofstream creates or truncates value.txt; when the
\* directory is missing the stream fails to open and nothing is written.
writeToDisk(d, k, v) ==
  IF d[k].dir THEN [d EXCEPT ![k] = File(Serialize(v))] ELSE d

\* The world a call works on, and a call's outcome.
World == [m_cache |-> m_cache, disk |-> disk, trash |-> trash, trashRoot |-> trashRoot]
Out(w, r) == [w |-> w, ret |-> r]

\* ------------------------------------------- the operations, as functions
\* operator[] that reloads a key although the table has an entry of it.
lookup_reloads(w, k) ==
  LET e == loadFromDisk(w.disk, k)
  IN Out([w EXCEPT !.m_cache[k] = e], Ret(e.ptr, e.val))

\* operator[] that takes a negative entry for a miss of the table and goes
\* to storage again.
lookup_retries(w, k) ==
  IF w.m_cache[k].in /\ w.m_cache[k].ptr
  THEN Out(w, Ret(TRUE, w.m_cache[k].val))
  ELSE LET e == loadFromDisk(w.disk, k)
       IN Out([w EXCEPT !.m_cache[k] = e], Ret(e.ptr, e.val))

\* Cache::operator[]
lookup(w, k) ==
  IF w.m_cache[k].in
  THEN Out(w, Ret(w.m_cache[k].ptr, w.m_cache[k].val))
  ELSE LET e == loadFromDisk(w.disk, k)
       IN Out([w EXCEPT !.m_cache[k] = e], Ret(e.ptr, e.val))

\* refresh that loads the key also when the table has no entry of it.
refresh_inserts(w, k) ==
  Out([w EXCEPT !.m_cache[k] = loadFromDisk(w.disk, k)], Void)

\* Cache::refresh
refresh(w, k) ==
  IF w.m_cache[k].in
  THEN Out([w EXCEPT !.m_cache[k] = loadFromDisk(w.disk, k)], Void)
  ELSE Out(w, Void)

\* create without the fs::exists test: an existing value.txt is overwritten.
create_overwrites(w, k, v) ==
  LET w1 == [w EXCEPT !.disk[k] = File(Serialize(v))]
  IN Out(refresh(w1, k).w, Ret(TRUE, <<>>))

\* create without its call of refresh(k).
create_noRefresh(w, k, v) ==
  IF w.disk[k].file THEN Out(w, Ret(FALSE, <<>>))
  ELSE IF w.disk[k].dir THEN Out(w, Ret(FALSE, <<>>))
  ELSE Out([w EXCEPT !.disk[k] = File(Serialize(v))], Ret(TRUE, <<>>))

\* Cache::create. fs::create_directories returns true only when it created a
\* directory, so an existing data/<k> makes create fail.
create(w, k, v) ==
  IF w.disk[k].file THEN Out(w, Ret(FALSE, <<>>))
  ELSE IF w.disk[k].dir THEN Out(w, Ret(FALSE, <<>>))
  ELSE LET w1 == [w EXCEPT !.disk[k] = File(Serialize(v))]
       IN Out(refresh(w1, k).w, Ret(TRUE, <<>>))

\* erase that empties the whole table (m_cache.clear() for m_cache.erase(iter)).
erase_all(w, k) == Out([w EXCEPT !.m_cache = [j \in Keys |-> NoEntry]], Void)

\* Cache::erase
erase(w, k) == Out([w EXCEPT !.m_cache[k] = NoEntry], Void)

\* remove that erases the table entry before it tests the directory.
remove_erasesFirst(w, k) ==
  IF ~w.disk[k].dir THEN Out(erase(w, k).w, Ret(FALSE, <<>>))
  ELSE IF w.trash[k].file THEN Out([w EXCEPT !.trashRoot = TRUE], Threw)
  ELSE LET w1 == [w EXCEPT !.trashRoot = TRUE,
                           !.trash[k] = w.disk[k],
                           !.disk[k] = NoDir]
       IN Out(erase(w1, k).w, Ret(TRUE, <<>>))

\* remove that leaves the table entry in place after the rename.
remove_keepsEntry(w, k) ==
  IF ~w.disk[k].dir THEN Out(w, Ret(FALSE, <<>>))
  ELSE IF w.trash[k].file THEN Out([w EXCEPT !.trashRoot = TRUE], Threw)
  ELSE Out([w EXCEPT !.trashRoot = TRUE,
                     !.trash[k] = w.disk[k],
                     !.disk[k] = NoDir], Ret(TRUE, <<>>))

\* Cache::remove. data/<k> is renamed to data/trash/data/<k>; rename(2) onto
\* an existing directory succeeds only when that directory is empty, else
\* boost throws filesystem_error before erase is reached.
remove(w, k) ==
  IF ~w.disk[k].dir THEN Out(w, Ret(FALSE, <<>>))
  ELSE IF w.trash[k].file THEN Out([w EXCEPT !.trashRoot = TRUE], Threw)
  ELSE LET w1 == [w EXCEPT !.trashRoot = TRUE,
                           !.trash[k] = w.disk[k],
                           !.disk[k] = NoDir]
       IN Out(erase(w1, k).w, Ret(TRUE, <<>>))

RECURSIVE saveFrom(_, _, _)
\* The loop of Cache::save over the std::map in key order.
saveFrom(mc, d, ks) ==
  IF ks = {} THEN d
  ELSE LET k == CHOOSE x \in ks : \A y \in ks : x <= y
           d1 == IF mc[k].in /\ mc[k].ptr THEN writeToDisk(d, k, mc[k].val) ELSE d
       IN saveFrom(mc, d1, ks \ {k})

\* Cache::save
save(w) == Out([w EXCEPT !.disk = saveFrom(w.m_cache, w.disk, Keys)], Void)

\* forceClear that saves before it empties the table, as clear does.
forceClear_saves(w) ==
  Out([w EXCEPT !.m_cache = [k \in Keys |-> NoEntry],
                !.disk = save(w).w.disk], Void)

\* Cache::forceClear
forceClear(w) == Out([w EXCEPT !.m_cache = [k \in Keys |-> NoEntry]], Void)

\* Cache::clear (force_clear in the source is forceClear)
clear(w) == forceClear(save(w).w)

\* The member function passed to callUpdateMemFn: std::string::push_back(c).
push_back(v, c) == Append(v, c)

\* callUpdateMemFn that writes the changed value through to storage.
callUpdateMemFn_writesThrough(w, k, c) ==
  LET l == lookup(w, k)
  IN IF ~l.ret.ok THEN Out(l.w, Ret(FALSE, <<>>))
     ELSE LET v == push_back(l.w.m_cache[k].val, c)
          IN Out([l.w EXCEPT !.m_cache[k] = Present(v),
                             !.disk = writeToDisk(l.w.disk, k, v)],
                 Ret(TRUE, <<>>))

\* Cache::callUpdateMemFn
callUpdateMemFn(w, k, c) ==
  LET l == lookup(w, k)
  IN IF ~l.ret.ok THEN Out(l.w, Ret(FALSE, <<>>))
     ELSE Out([l.w EXCEPT !.m_cache[k] = Present(push_back(l.w.m_cache[k].val, c))],
              Ret(TRUE, <<>>))

\* The member function passed to callGetterMemFn: std::string::front() const
\* (T = char, a char written as a string of length one). front() is
\* operator[](0), which on an empty string refers to the terminating '\0'.
NulChar == "0"
getter(v) == IF v = <<>> THEN <<NulChar>> ELSE <<v[1]>>
\* T(): the default-constructed char.
DefaultT == <<NulChar>>

\* callGetterMemFn without the test of ptr == nullptr: a missing key is
\* answered as if an empty object had been found.
callGetterMemFn_noNullTest(w, k) ==
  LET l == lookup(w, k)
  IN Out(l.w, Ret(TRUE, getter(l.w.m_cache[k].val)))

\* Cache::callGetterMemFn
callGetterMemFn(w, k) ==
  LET l == lookup(w, k)
  IN IF ~l.ret.ok THEN Out(l.w, Ret(FALSE, DefaultT))
     ELSE Out(l.w, Ret(TRUE, getter(l.w.m_cache[k].val)))

\* A newly constructed Cache on the storage of w: its table is empty.
fresh(w) == [w EXCEPT !.m_cache = [k \in Keys |-> NoEntry]]

\* ------------------------------------------------------------ threads
Threads == {1, 2, 3}
\* The threads that call under SpecEL.
ELThreads == {1, 2}
Free == 0
NoMutex == -1
\* A default-constructed std::thread::id.
NoThread == 0
NoCall == [op |-> "none", k |-> 0, v |-> <<>>]
\* A thread's shared_ptr: none, nullptr, the object the table holds for the
\* key of its call (live), or an object the table has dropped (detached, with
\* the value it had then).
NoPtr == [st |-> "none", val |-> <<>>]

\* The storage and the policy state right after the constructors ran. The
\* private constructor of CollectionMutex leaves locked_ uninitialized.
InitShared ==
  /\ m_cache = [k \in Keys |-> NoEntry]
  /\ trash = [k \in Keys |-> NoDir]
  /\ trashRoot = FALSE
  /\ global_mutex_ = Free
  /\ entry_mutexes_ = [k \in Keys |-> NoMutex]
  /\ locked_ \in BOOLEAN
  /\ owner_thread_ = NoThread
  /\ pc = [t \in Threads |-> "idle"]
  /\ call = [t \in Threads |-> NoCall]
  /\ nest = [t \in Threads |-> 0]
  /\ ret = [t \in Threads |-> Void]
  /\ ptr = [t \in Threads |-> NoPtr]
  /\ iter = [t \in Threads |-> 0]
  /\ calls = [t \in Threads |-> 0]
  /\ known = [t \in Threads |-> {}]
  /\ stray = FALSE

\* ------------------------------------ Spec: one caller, no-op mutexes
Init ==
  /\ InitShared
  /\ disk = [k \in Keys |-> NoDir]
  /\ locked_ = FALSE
  /\ last = [op |-> "init", k |-> 0, ok |-> TRUE, threw |-> FALSE]

\* A call of the single caller: the world becomes o.w and the call is noted.
Apply(o, name, k) ==
  /\ m_cache' = o.w.m_cache
  /\ disk' = o.w.disk
  /\ trash' = o.w.trash
  /\ trashRoot' = o.w.trashRoot
  /\ last' = [op |-> name, k |-> k, ok |-> o.ret.ok, threw |-> o.ret.threw]
  /\ UNCHANGED <<lockvars, threadvars>>

Lookup(k) == Apply(lookup(World, k), "lookup", k)
Create(k, v) == Apply(create(World, k, v), "create", k)
Remove(k) == Apply(remove(World, k), "remove", k)
Refresh(k) == Apply(refresh(World, k), "refresh", k)
Save == Apply(save(World), "save", 0)
Clear == Apply(clear(World), "clear", 0)
ForceClear == Apply(forceClear(World), "forceClear", 0)
Erase(k) == Apply(erase(World, k), "erase", k)
CallUpdateMemFn(k, c) ==
  /\ LET l == lookup(World, k) IN l.ret.ok => Len(l.ret.val) < MaxLen
  /\ Apply(callUpdateMemFn(World, k, c), "callUpdateMemFn", k)
CallGetterMemFn(k) == Apply(callGetterMemFn(World, k), "callGetterMemFn", k)

\* Storage changed behind the cache's back: another program writes
\* data/<k>/value.txt (creating the directory), makes the directory alone,
\* or deletes the directory with what it holds.
ExternalWrite(k, bytes) ==
  Apply(Out([World EXCEPT !.disk[k] = File(bytes)], Void), "external", k)
ExternalMkdir(k) ==
  /\ ~disk[k].dir
  /\ Apply(Out([World EXCEPT !.disk[k] = EmptyDir], Void), "external", k)
ExternalRemove(k) ==
  /\ disk[k].dir
  /\ Apply(Out([World EXCEPT !.disk[k] = NoDir], Void), "external", k)

Next ==
  \/ \E k \in Keys : Lookup(k)
  \/ \E k \in Keys, v \in Strings : Create(k, v)
  \/ \E k \in Keys : Remove(k)
  \/ \E k \in Keys : Refresh(k)
  \/ Save
  \/ Clear
  \/ ForceClear
  \/ \E k \in Keys : Erase(k)
  \/ \E k \in Keys, c \in Char : CallUpdateMemFn(k, c)
  \/ \E k \in Keys : CallGetterMemFn(k)
  \/ \E k \in Keys, bytes \in Strings : ExternalWrite(k, bytes)
  \/ \E k \in Keys : ExternalMkdir(k)
  \/ \E k \in Keys : ExternalRemove(k)

Spec == Init /\ [][Next]_vars

\* A program that only creates, looks up, updates and saves, with nothing
\* else touching storage (the demo programs and the README's basic usage).
NextSeq ==
  \/ \E k \in Keys : Lookup(k)
  \/ \E k \in Keys, v \in Strings : Create(k, v)
  \/ \E k \in Keys, c \in Char : CallUpdateMemFn(k, c)
  \/ Save

SpecSeq == Init /\ [][NextSeq]_vars

\* A single caller using every operation of the cache, with nothing else
\* touching storage.
NextOwn ==
  \/ \E k \in Keys : Lookup(k)
  \/ \E k \in Keys, v \in Strings : Create(k, v)
  \/ \E k \in Keys : Remove(k)
  \/ \E k \in Keys : Refresh(k)
  \/ Save
  \/ Clear
  \/ ForceClear
  \/ \E k \in Keys : Erase(k)
  \/ \E k \in Keys, c \in Char : CallUpdateMemFn(k, c)
  \/ \E k \in Keys : CallGetterMemFn(k)

SpecOwn == Init /\ [][NextOwn]_vars

\* ------------------------------------------------------------------------
\* EntryLocking: every call is split at its mutex operations
\* ------------------------------------------------------------------------
\* The value create is called with and the character push_back appends.
ELValue == <<"a">>
KeyOps == {"lookup", "create", "remove", "refresh", "callUpdateMemFn", "callGetterMemFn"}

\* Storage holds data of an earlier run when the cache is constructed: key 1
\* has its file, the other keys have none.
InitEL ==
  /\ InitShared
  /\ disk = [k \in Keys |-> IF k = 1 THEN File(ELValue) ELSE NoDir]
  /\ last = [op |-> "init", k |-> 0, ok |-> TRUE, threw |-> FALSE]

\* std::mutex::unlock by thread t of a mutex held by m. Unlocking a mutex the
\* caller does not own is undefined: the mutex is released all the same (no
\* owner check) or stays as it is (the call fails with EPERM).
Unlock(m, t) ==
  IF m = t THEN {Free}
  ELSE IF m \in {Free, NoMutex} THEN {m}
  ELSE {Free, m}

\* Thread t unlocks a mutex that another thread holds (m is the holder).
Foreign(m, t) == m \in Threads \ {t}

\* The keys whose mutex exists, and the next one after key i in map order.
Known == {k \in Keys : entry_mutexes_[k] # NoMutex}
NextKnown(i) == {k \in Known : k > i /\ \A j \in Known : j > i => k <= j}

\* The holder of the mutex thread t is about to lock (NoMutex when there is
\* none or t is at no lock()).
LockTarget(t) ==
  CASE pc[t] \in {"le_global", "la_global"} -> global_mutex_
    [] pc[t] = "le_entry" -> entry_mutexes_[call[t].k]
    [] pc[t] = "la_entries" /\ NextKnown(iter[t]) # {} ->
         entry_mutexes_[CHOOSE k \in NextKnown(iter[t]) : TRUE]
    [] OTHER -> NoMutex

\* The threads' pointers after the table dropped or replaced the objects of
\* the keys ks.
Detach(ks) ==
  [u \in Threads |->
     IF ptr[u].st = "live" /\ call[u].k \in ks
     THEN [st |-> "detached", val |-> m_cache[call[u].k].val]
     ELSE ptr[u]]

\* The table, storage and trash become those of the outcome o.
SetWorld(o) ==
  /\ m_cache' = o.w.m_cache
  /\ disk' = o.w.disk
  /\ trash' = o.w.trash
  /\ trashRoot' = o.w.trashRoot

\* Thread t returns to its caller.
Return(t) == pc' = [pc EXCEPT ![t] = "idle"]

\* Thread t starts a call on a key: the first statement is LockEntry(k).
StartKeyed(t, op, k) ==
  /\ pc[t] = "idle" /\ calls[t] < MaxCalls
  /\ pc' = [pc EXCEPT ![t] = "le_global"]
  /\ call' = [call EXCEPT ![t] = [op |-> op, k |-> k, v |-> ELValue]]
  /\ calls' = [calls EXCEPT ![t] = @ + 1]
  /\ ret' = [ret EXCEPT ![t] = Void]
  /\ ptr' = [ptr EXCEPT ![t] = NoPtr]
  /\ nest' = [nest EXCEPT ![t] = 0]
  /\ known' = [known EXCEPT ![t] = {}]
  /\ UNCHANGED <<m_cache, fsvars, last, lockvars, iter, stray>>

\* Thread t starts save() or clear(): the first statement is LockAll().
StartBulk(t, op) ==
  /\ pc[t] = "idle" /\ calls[t] < MaxCalls
  /\ pc' = [pc EXCEPT ![t] = "la_check"]
  /\ call' = [call EXCEPT ![t] = [op |-> op, k |-> 0, v |-> <<>>]]
  /\ calls' = [calls EXCEPT ![t] = @ + 1]
  /\ ret' = [ret EXCEPT ![t] = Void]
  /\ ptr' = [ptr EXCEPT ![t] = NoPtr]
  /\ nest' = [nest EXCEPT ![t] = 0]
  /\ known' = [known EXCEPT ![t] = {j \in Keys : entry_mutexes_[j] # NoMutex}]
  /\ UNCHANGED <<m_cache, fsvars, last, lockvars, iter, stray>>

StartLookup(t, k) == StartKeyed(t, "lookup", k)
StartCreate(t, k) == StartKeyed(t, "create", k)
StartRemove(t, k) == StartKeyed(t, "remove", k)
StartRefresh(t, k) == StartKeyed(t, "refresh", k)
StartUpdate(t, k) == StartKeyed(t, "callUpdateMemFn", k)
StartGetter(t, k) == StartKeyed(t, "callGetterMemFn", k)
StartSave(t) == StartBulk(t, "save")
StartClear(t) == StartBulk(t, "clear")

\* ---- EntryLocking::LockEntry
\* std::lock_guard global_lk(global_mutex_): blocks while another thread
\* holds it.
LE_Global(t) ==
  /\ pc[t] = "le_global"
  /\ global_mutex_ = Free
  /\ global_mutex_' = t
  /\ pc' = [pc EXCEPT ![t] = "le_entry"]
  /\ UNCHANGED <<m_cache, fsvars, last, entry_mutexes_, locked_, owner_thread_,
                 call, nest, ret, ptr, iter, calls, known, stray>>

\* entry_mutexes_[k] (created when absent) and m.lock(), with global_mutex_
\* still held: blocks while another thread holds the mutex of k.
LE_Entry(t) ==
  /\ pc[t] = "le_entry"
  /\ entry_mutexes_[call[t].k] \in {NoMutex, Free}
  /\ entry_mutexes_' = [entry_mutexes_ EXCEPT ![call[t].k] = t]
  /\ pc' = [pc EXCEPT ![t] = "le_ret"]
  /\ UNCHANGED <<m_cache, fsvars, last, global_mutex_, locked_, owner_thread_,
                 call, nest, ret, ptr, iter, calls, known, stray>>

\* A LockEntry that returns with global_mutex_ still locked.
LE_Ret_keepsGuard(t) ==
  /\ pc[t] = "le_ret"
  /\ pc' = [pc EXCEPT ![t] = "cs"]
  /\ UNCHANGED <<m_cache, fsvars, last, lockvars, call, nest, ret, ptr, iter,
                 calls, known, stray>>

\* return m: global_lk releases global_mutex_; the caller's lock_guard adopts
\* the entry mutex and the critical section begins.
LE_Ret(t) ==
  /\ pc[t] = "le_ret"
  /\ global_mutex_' \in Unlock(global_mutex_, t)
  /\ pc' = [pc EXCEPT ![t] = "cs"]
  /\ UNCHANGED <<m_cache, fsvars, last, entry_mutexes_, locked_, owner_thread_,
                 call, nest, ret, ptr, iter, calls, known>>
  /\ stray' = (stray \/ Foreign(global_mutex_, t))

\* ---- lock() of a std::mutex the calling thread holds already: undefined.
\* The builds either never return from it ...
Relock_Deadlock(t) ==
  /\ LockTarget(t) = t
  /\ pc' = [pc EXCEPT ![t] = "deadlocked"]
  /\ UNCHANGED <<m_cache, fsvars, last, lockvars, call, nest, ret, ptr, iter, calls, known, stray>>

\* ... or throw std::system_error (resource_deadlock_would_occur). Unwinding
\* runs the guards: global_lk inside LockEntry, then the guard of the
\* enclosing call (the entry mutex, or the CollectionMutex for clear). What
\* CollectionMutex::lock had locked before it threw stays locked.
Relock_Throw(t) ==
  /\ LockTarget(t) = t
  /\ ret' = [ret EXCEPT ![t] = Threw]
  /\ global_mutex_' \in IF pc[t] = "le_entry" THEN Unlock(global_mutex_, t)
                        ELSE {global_mutex_}
  /\ pc' = [pc EXCEPT ![t] =
              IF nest[t] = 0 THEN "idle"
              ELSE IF call[t].op = "clear" THEN "ul_entries" ELSE "exit"]
  /\ nest' = [nest EXCEPT ![t] = 0]
  /\ UNCHANGED <<m_cache, fsvars, last, entry_mutexes_, locked_, owner_thread_,
                 call, ptr, iter, calls, known>>
  /\ stray' = (stray \/ (pc[t] = "le_entry" /\ Foreign(global_mutex_, t)))

\* ---- the critical sections of the calls on one key
\* operator[]: find, or load and insert.
Cs_Lookup(t) ==
  /\ pc[t] = "cs" /\ nest[t] = 0 /\ call[t].op = "lookup"
  /\ LET o == lookup(World, call[t].k)
     IN SetWorld(o) /\ ret' = [ret EXCEPT ![t] = o.ret]
  /\ pc' = [pc EXCEPT ![t] = "exit"]
  /\ UNCHANGED <<last, lockvars, call, nest, ptr, iter, calls, known, stray>>

\* refresh: the entry, when there is one, is replaced by a new object.
Cs_Refresh(t) ==
  /\ pc[t] = "cs" /\ nest[t] = 0 /\ call[t].op = "refresh"
  /\ SetWorld(refresh(World, call[t].k))
  /\ ptr' = IF m_cache[call[t].k].in THEN Detach({call[t].k}) ELSE ptr
  /\ pc' = [pc EXCEPT ![t] = "exit"]
  /\ UNCHANGED <<last, lockvars, call, nest, ret, iter, calls, known, stray>>

\* remove: all of its body (erase takes no lock).
Cs_Remove(t) ==
  /\ pc[t] = "cs" /\ nest[t] = 0 /\ call[t].op = "remove"
  /\ LET o == remove(World, call[t].k)
     IN /\ SetWorld(o)
        /\ ret' = [ret EXCEPT ![t] = o.ret]
        /\ ptr' = IF o.ret.ok THEN Detach({call[t].k}) ELSE ptr
  /\ pc' = [pc EXCEPT ![t] = "exit"]
  /\ UNCHANGED <<last, lockvars, call, nest, iter, calls, known, stray>>

\* create up to its call of refresh(k): the two failure returns, or the file
\* is written and refresh is entered with the entry mutex held.
Cs_Create(t) ==
  /\ pc[t] = "cs" /\ nest[t] = 0 /\ call[t].op = "create"
  /\ IF disk[call[t].k].file \/ disk[call[t].k].dir
     THEN /\ ret' = [ret EXCEPT ![t] = Ret(FALSE, <<>>)]
          /\ pc' = [pc EXCEPT ![t] = "exit"]
          /\ UNCHANGED <<disk, nest>>
     ELSE /\ disk' = [disk EXCEPT ![call[t].k] = File(Serialize(call[t].v))]
          /\ pc' = [pc EXCEPT ![t] = "le_global"]
          /\ nest' = [nest EXCEPT ![t] = 1]
          /\ UNCHANGED ret
  /\ UNCHANGED <<m_cache, trash, trashRoot, last, lockvars, call, ptr, iter, calls, known, stray>>

\* callUpdateMemFn and callGetterMemFn call operator[] first, with the entry
\* mutex held.
Cs_Call(t) ==
  /\ pc[t] = "cs" /\ nest[t] = 0
  /\ call[t].op \in {"callUpdateMemFn", "callGetterMemFn"}
  /\ pc' = [pc EXCEPT ![t] = "le_global"]
  /\ nest' = [nest EXCEPT ![t] = 1]
  /\ UNCHANGED <<m_cache, fsvars, last, lockvars, call, ret, ptr, iter, calls, known, stray>>

\* The critical section of the refresh(k) that create calls.
Cs_InnerRefresh(t) ==
  /\ pc[t] = "cs" /\ nest[t] = 1 /\ call[t].op = "create"
  /\ SetWorld(refresh(World, call[t].k))
  /\ ptr' = IF m_cache[call[t].k].in THEN Detach({call[t].k}) ELSE ptr
  /\ pc' = [pc EXCEPT ![t] = "exit"]
  /\ UNCHANGED <<last, lockvars, call, nest, ret, iter, calls, known, stray>>

\* The critical section of the operator[] that callUpdateMemFn and
\* callGetterMemFn call: its result is the caller's ptr.
Cs_InnerLookup(t) ==
  /\ pc[t] = "cs" /\ nest[t] = 1
  /\ call[t].op \in {"callUpdateMemFn", "callGetterMemFn"}
  /\ LET o == lookup(World, call[t].k)
     IN /\ SetWorld(o)
        /\ ptr' = [ptr EXCEPT ![t] = [st |-> IF o.ret.ok THEN "live" ELSE "null",
                                      val |-> <<>>]]
  /\ pc' = [pc EXCEPT ![t] = "exit"]
  /\ UNCHANGED <<last, lockvars, call, nest, ret, iter, calls, known, stray>>

\* The lock_guard of the inner call unlocks the entry mutex and the inner
\* call returns.
ExitInner(t) ==
  /\ pc[t] = "exit" /\ nest[t] = 1
  /\ entry_mutexes_' \in {[entry_mutexes_ EXCEPT ![call[t].k] = m] :
                            m \in Unlock(entry_mutexes_[call[t].k], t)}
  /\ pc' = [pc EXCEPT ![t] = "post"]
  /\ nest' = [nest EXCEPT ![t] = 0]
  /\ UNCHANGED <<m_cache, fsvars, last, global_mutex_, locked_, owner_thread_,
                 call, ret, ptr, iter, calls, known>>
  /\ stray' = (stray \/ Foreign(entry_mutexes_[call[t].k], t))

\* create after refresh returned.
Post_Create(t) ==
  /\ pc[t] = "post" /\ call[t].op = "create"
  /\ ret' = [ret EXCEPT ![t] = Ret(TRUE, <<>>)]
  /\ pc' = [pc EXCEPT ![t] = "exit"]
  /\ UNCHANGED <<m_cache, fsvars, last, lockvars, call, nest, ptr, iter, calls, known, stray>>

\* callUpdateMemFn after operator[] returned: the member function runs on
\* the object ptr points to, which the table may have dropped meanwhile.
Post_Update(t) ==
  /\ pc[t] = "post" /\ call[t].op = "callUpdateMemFn"
  /\ ret' = [ret EXCEPT ![t] = Ret(ptr[t].st # "null", <<>>)]
  /\ m_cache' = IF ptr[t].st = "live"
                THEN [m_cache EXCEPT ![call[t].k] =
                        Present(push_back(m_cache[call[t].k].val, call[t].v[1]))]
                ELSE m_cache
  /\ pc' = [pc EXCEPT ![t] = "exit"]
  /\ UNCHANGED <<fsvars, last, lockvars, call, nest, ptr, iter, calls, known, stray>>

\* callGetterMemFn after operator[] returned.
Post_Getter(t) ==
  /\ pc[t] = "post" /\ call[t].op = "callGetterMemFn"
  /\ ret' = [ret EXCEPT ![t] =
               IF ptr[t].st = "null" THEN Ret(FALSE, DefaultT)
               ELSE IF ptr[t].st = "live"
                    THEN Ret(TRUE, getter(m_cache[call[t].k].val))
                    ELSE Ret(TRUE, getter(ptr[t].val))]
  /\ pc' = [pc EXCEPT ![t] = "exit"]
  /\ UNCHANGED <<m_cache, fsvars, last, lockvars, call, nest, ptr, iter, calls, known, stray>>

\* The lock_guard key_lock of the public call unlocks the entry mutex and
\* the call returns.
Exit(t) ==
  /\ pc[t] = "exit" /\ nest[t] = 0
  /\ entry_mutexes_' \in {[entry_mutexes_ EXCEPT ![call[t].k] = m] :
                            m \in Unlock(entry_mutexes_[call[t].k], t)}
  /\ Return(t)
  /\ UNCHANGED <<m_cache, fsvars, last, global_mutex_, locked_, owner_thread_,
                 call, nest, ret, ptr, iter, calls, known>>
  /\ stray' = (stray \/ Foreign(entry_mutexes_[call[t].k], t))

\* ---- CollectionMutex::lock, called by LockAll
\* Where a thread continues when LockAll() has returned: clear calls save(),
\* whose first statement is LockAll() again; save runs its loop.
AfterLockAll(t) ==
  IF call[t].op = "clear" /\ nest[t] = 0
  THEN pc' = [pc EXCEPT ![t] = "la_check"] /\ nest' = [nest EXCEPT ![t] = 1]
  ELSE pc' = [pc EXCEPT ![t] = "sv"] /\ UNCHANGED nest

\* if (locked_ && owner_thread_ == this_thread) return;
LA_Recursive(t) ==
  /\ pc[t] = "la_check"
  /\ locked_ /\ owner_thread_ = t
  /\ AfterLockAll(t)
  /\ UNCHANGED <<m_cache, fsvars, last, lockvars, call, ret, ptr, iter, calls, known, stray>>

\* ... otherwise the thread goes on to global_mutex().lock().
LA_Check(t) ==
  /\ pc[t] = "la_check"
  /\ ~(locked_ /\ owner_thread_ = t)
  /\ pc' = [pc EXCEPT ![t] = "la_global"]
  /\ UNCHANGED <<m_cache, fsvars, last, lockvars, call, nest, ret, ptr, iter, calls, known, stray>>

\* A lock() with an exclusion primitive of its own, which LockEntry never
\* takes: global_mutex_ is left alone.
LA_Global_ownPrimitive(t) ==
  /\ pc[t] = "la_global"
  /\ iter' = [iter EXCEPT ![t] = 0]
  /\ pc' = [pc EXCEPT ![t] = "la_entries"]
  /\ UNCHANGED <<m_cache, fsvars, last, lockvars, call, nest, ret, ptr, calls,
                 known, stray>>

\* locking_policy_class().global_mutex().lock();
LA_Global(t) ==
  /\ pc[t] = "la_global"
  /\ global_mutex_ = Free
  /\ global_mutex_' = t
  /\ iter' = [iter EXCEPT ![t] = 0]
  /\ pc' = [pc EXCEPT ![t] = "la_entries"]
  /\ UNCHANGED <<m_cache, fsvars, last, entry_mutexes_, locked_, owner_thread_,
                 call, nest, ret, ptr, calls, known, stray>>

\* for (auto& entry_mutex : entry_mutexes()) entry_mutex.lock(): one mutex
\* per step, in key order, blocking while another thread holds it.
LA_Entry(t) ==
  /\ pc[t] = "la_entries"
  /\ \E k \in NextKnown(iter[t]) :
       /\ entry_mutexes_[k] = Free
       /\ entry_mutexes_' = [entry_mutexes_ EXCEPT ![k] = t]
       /\ iter' = [iter EXCEPT ![t] = k]
  /\ UNCHANGED <<m_cache, fsvars, last, global_mutex_, locked_, owner_thread_,
                 pc, call, nest, ret, ptr, calls, known, stray>>

\* owner_thread_ = this_thread; locked_ = true; and lock() returns.
LA_Done(t) ==
  /\ pc[t] = "la_entries"
  /\ NextKnown(iter[t]) = {}
  /\ owner_thread_' = t
  /\ locked_' = TRUE
  /\ AfterLockAll(t)
  /\ UNCHANGED <<m_cache, fsvars, last, global_mutex_, entry_mutexes_,
                 call, ret, ptr, iter, calls, known, stray>>

\* The loop of save over the table.
SV_Loop(t) ==
  /\ pc[t] = "sv"
  /\ SetWorld(save(World))
  /\ pc' = [pc EXCEPT ![t] = "ul_entries"]
  /\ UNCHANGED <<last, lockvars, call, nest, ret, ptr, iter, calls, known, stray>>

\* ---- CollectionMutex::unlock, run by the lock_guard of save and of clear
\* for (auto& entry_mutex : entry_mutexes()) entry_mutex.unlock();
\* locked_ = false;
UL_Entries(t) ==
  /\ pc[t] = "ul_entries"
  /\ entry_mutexes_' \in {f \in [Keys -> Threads \cup {Free, NoMutex}] :
                            \A k \in Keys : f[k] \in Unlock(entry_mutexes_[k], t)}
  /\ locked_' = FALSE
  /\ pc' = [pc EXCEPT ![t] = "ul_global"]
  /\ UNCHANGED <<m_cache, fsvars, last, global_mutex_, owner_thread_,
                 call, nest, ret, ptr, iter, calls, known>>
  /\ stray' = (stray \/ \E k \in Keys : Foreign(entry_mutexes_[k], t))

\* global_mutex().unlock(); then save returns, into clear when clear called
\* it, and clear returns after the unlock of its own guard.
UL_Global(t) ==
  /\ pc[t] = "ul_global"
  /\ global_mutex_' \in Unlock(global_mutex_, t)
  /\ IF call[t].op = "clear" /\ nest[t] = 1
     THEN pc' = [pc EXCEPT ![t] = "fc"] /\ nest' = [nest EXCEPT ![t] = 0]
     ELSE Return(t) /\ UNCHANGED nest
  /\ UNCHANGED <<m_cache, fsvars, last, entry_mutexes_, locked_, owner_thread_,
                 call, ret, ptr, iter, calls, known>>
  /\ stray' = (stray \/ Foreign(global_mutex_, t))

\* clear after save returned: forceClear (force_clear in the source), then
\* the guard of clear runs unlock() once more.
FC(t) ==
  /\ pc[t] = "fc"
  /\ SetWorld(forceClear(World))
  /\ ptr' = Detach(Keys)
  /\ pc' = [pc EXCEPT ![t] = "ul_entries"]
  /\ UNCHANGED <<last, lockvars, call, nest, ret, iter, calls, known, stray>>

\* ---- erase and forceClear called by a user of the cache: neither takes a
\* lock, the call goes straight to the table.
StartDirect(t, op, k) ==
  /\ pc[t] = "idle" /\ calls[t] < MaxCalls
  /\ pc' = [pc EXCEPT ![t] = "direct"]
  /\ call' = [call EXCEPT ![t] = [op |-> op, k |-> k, v |-> <<>>]]
  /\ calls' = [calls EXCEPT ![t] = @ + 1]
  /\ ret' = [ret EXCEPT ![t] = Void]
  /\ ptr' = [ptr EXCEPT ![t] = NoPtr]
  /\ nest' = [nest EXCEPT ![t] = 0]
  /\ known' = [known EXCEPT ![t] = {}]
  /\ UNCHANGED <<m_cache, fsvars, last, lockvars, iter, stray>>

StartErase(t, k) == StartDirect(t, "erase", k)
StartForceClear(t) == StartDirect(t, "forceClear", 0)

\* m_cache.find(k) and m_cache.erase(iter)
Direct_Erase(t) ==
  /\ pc[t] = "direct" /\ call[t].op = "erase"
  /\ SetWorld(erase(World, call[t].k))
  /\ ptr' = IF m_cache[call[t].k].in THEN Detach({call[t].k}) ELSE ptr
  /\ Return(t)
  /\ UNCHANGED <<last, lockvars, call, nest, ret, iter, calls, known, stray>>

\* m_cache.clear()
Direct_ForceClear(t) ==
  /\ pc[t] = "direct" /\ call[t].op = "forceClear"
  /\ SetWorld(forceClear(World))
  /\ ptr' = Detach(Keys)
  /\ Return(t)
  /\ UNCHANGED <<last, lockvars, call, nest, ret, iter, calls, known, stray>>

\* The steps any call on a key is made of.
KeyedSteps(t) ==
  \/ LE_Global(t) \/ LE_Entry(t) \/ LE_Ret(t) \/ Exit(t)

NextEL ==
  \E t \in ELThreads :
    \/ \E k \in Keys : StartLookup(t, k)
    \/ \E k \in Keys : StartCreate(t, k)
    \/ \E k \in Keys : StartRemove(t, k)
    \/ \E k \in Keys : StartRefresh(t, k)
    \/ \E k \in Keys : StartUpdate(t, k)
    \/ \E k \in Keys : StartGetter(t, k)
    \/ StartSave(t)
    \/ StartClear(t)
    \/ KeyedSteps(t)
    \/ Relock_Deadlock(t) \/ Relock_Throw(t)
    \/ Cs_Lookup(t) \/ Cs_Refresh(t) \/ Cs_Remove(t) \/ Cs_Create(t) \/ Cs_Call(t)
    \/ Cs_InnerRefresh(t) \/ Cs_InnerLookup(t) \/ ExitInner(t)
    \/ Post_Create(t) \/ Post_Update(t) \/ Post_Getter(t)
    \/ LA_Recursive(t) \/ LA_Check(t) \/ LA_Global(t) \/ LA_Entry(t) \/ LA_Done(t)
    \/ SV_Loop(t) \/ UL_Entries(t) \/ UL_Global(t) \/ FC(t)
    \/ \E k \in Keys : StartErase(t, k)
    \/ StartForceClear(t)
    \/ Direct_Erase(t) \/ Direct_ForceClear(t)

SpecEL == InitEL /\ [][NextEL]_vars

\* What a thread does once a call of lookup, refresh, remove or save has
\* begun, up to its return.
LiveSteps(t) ==
  \/ KeyedSteps(t)
  \/ Cs_Lookup(t) \/ Cs_Refresh(t) \/ Cs_Remove(t)
  \/ LA_Check(t) \/ LA_Global(t) \/ LA_Entry(t) \/ LA_Done(t)
  \/ SV_Loop(t) \/ UL_Entries(t) \/ UL_Global(t)

\* The calls made so far by the threads of S, and whether another call may
\* begin.
RECURSIVE CallsMade(_)
CallsMade(S) ==
  IF S = {} THEN 0
  ELSE LET t == CHOOSE x \in S : TRUE IN calls[t] + CallsMade(S \ {t})
LiveBudget == CallsMade(Threads) < MaxLiveCalls

\* Three threads that call operator[], refresh, remove and save only.
NextLive ==
  \E t \in Threads :
    \/ \E k \in Keys : LiveBudget /\ StartLookup(t, k)
    \/ \E k \in Keys : LiveBudget /\ StartRefresh(t, k)
    \/ \E k \in Keys : LiveBudget /\ StartRemove(t, k)
    \/ LiveBudget /\ StartSave(t)
    \/ LiveSteps(t)

\* A thread that can take a step is scheduled in the end: a started call
\* keeps running, nothing obliges a thread to start one.
SpecLive ==
  InitEL /\ [][NextLive]_vars /\ \A t \in Threads : WF_vars(LiveSteps(t))

\* Three threads that call operator[] and refresh only.
NextKeys ==
  \E t \in Threads :
    \/ \E k \in Keys : StartLookup(t, k)
    \/ \E k \in Keys : StartRefresh(t, k)
    \/ KeyedSteps(t)
    \/ Cs_Lookup(t) \/ Cs_Refresh(t)

SpecKeys == InitEL /\ [][NextKeys]_vars

\* ------------------------------------------------------------------------
\* Claims checked under Spec (single caller, NoConcurrencyControl)
\* ------------------------------------------------------------------------

\* C1: operator[] returns the table entry of k when there is one (present or
\* negative), whatever storage holds; otherwise it loads k: when value.txt
\* exists the entry becomes present with the value read from it and that
\* value is returned, when it does not a negative entry is recorded and
\* nullptr is returned. Storage and trash are never changed.
C1_LookupContract ==
  \A k \in Keys :
    LET o == lookup(World, k)
    IN /\ o.w.disk = disk /\ o.w.trash = trash /\ o.w.trashRoot = trashRoot
       /\ \A j \in Keys \ {k} : o.w.m_cache[j] = m_cache[j]
       /\ m_cache[k].in =>
            /\ o.w.m_cache[k] = m_cache[k]
            /\ o.ret = Ret(m_cache[k].ptr, m_cache[k].val)
            /\ \A f \in {NoDir, EmptyDir} \cup {File(b) : b \in Strings} :
                 lookup([World EXCEPT !.disk[k] = f], k).ret = o.ret
       /\ (~m_cache[k].in /\ disk[k].file) =>
            /\ o.w.m_cache[k] = Present(Deserialize(disk[k].data))
            /\ o.ret = Ret(TRUE, Deserialize(disk[k].data))
       /\ (~m_cache[k].in /\ ~disk[k].file) =>
            /\ o.w.m_cache[k] = NullPtr
            /\ o.ret = Ret(FALSE, <<>>)

\* C1 witness: a lookup has answered from a table entry that differs from
\* what storage holds, and another key was loaded from storage.
C1_Witness ==
  /\ last.op = "lookup" /\ last.ok
  /\ disk[last.k].file
  /\ m_cache[last.k].val # Deserialize(disk[last.k].data)
  /\ \E j \in Keys \ {last.k} : m_cache[j] = NullPtr /\ ~disk[j].dir

\* The values that operator>> reads back as operator<< wrote them: the
\* non-empty strings without whitespace, and the empty string.
RoundTrips(v) == Deserialize(Serialize(v)) = v

\* C2 (as claimed, for the values that survive the stream operators):
\* whenever value.txt of k does not exist, create(k, v) succeeds, storage
\* then holds v, and refresh(k) followed by lookup(k) returns v.
C2_CreateRefreshLookup ==
  \A k \in Keys, v \in {x \in Strings : RoundTrips(x)} :
    ~disk[k].file =>
      LET c == create(World, k, v)
          l == lookup(refresh(c.w, k).w, k)
      IN /\ c.ret = Ret(TRUE, <<>>)
         /\ c.w.disk[k] = File(v)
         /\ l.ret = Ret(TRUE, v)

\* C3: create(k, v) on a key whose value.txt exists returns false and leaves
\* storage, trash and the table as they were.
C3_CreateExistingFails ==
  \A k \in Keys, v \in Strings :
    disk[k].file => create(World, k, v) = Out(World, Ret(FALSE, <<>>))

\* C3 witness: a create has failed on a key whose file exists with other
\* content than an entry the table holds for it.
C3_Witness ==
  /\ last.op = "create" /\ ~last.ok
  /\ disk[last.k].file
  /\ m_cache[last.k].ptr
  /\ m_cache[last.k].val # Deserialize(disk[last.k].data)

\* C4 (as claimed): remove(k) on a key whose value.txt exists returns true,
\* the content is in the trash tree and no longer at its place, the table
\* has no entry of k, and a following lookup(k) reports not-found.
C4_RemoveMovesToTrash ==
  \A k \in Keys :
    disk[k].file =>
      LET r == remove(World, k)
      IN /\ r.ret = Ret(TRUE, <<>>)
         /\ r.w.disk[k] = NoDir
         /\ r.w.trash[k] = disk[k]
         /\ ~r.w.m_cache[k].in
         /\ lookup(r.w, k).ret = Ret(FALSE, <<>>)

\* C5: remove(k) on a key with neither file nor directory returns false and
\* leaves the table (a negative entry included), storage and trash as they
\* were.
C5_RemoveMissingFails ==
  \A k \in Keys :
    ~disk[k].dir => remove(World, k) = Out(World, Ret(FALSE, <<>>))

\* C5 witness: a remove has failed on a key without storage whose negative
\* entry is still in the table.
C5_Witness ==
  /\ last.op = "remove" /\ ~last.ok /\ ~last.threw
  /\ ~disk[last.k].dir
  /\ m_cache[last.k] = NullPtr

\* C11 (as claimed): save() leaves the table and the trash as they were,
\* changes the storage of no key without a present entry (a negative entry
\* gets no directory and no file), and after it the value.txt of every
\* present entry holds that entry's in-memory value.
C11_SaveWritesPresent ==
  LET s == save(World)
  IN /\ s.w.m_cache = m_cache /\ s.w.trash = trash /\ s.w.trashRoot = trashRoot
     /\ \A k \in Keys :
          IF m_cache[k].ptr
          THEN s.w.disk[k] = File(Serialize(m_cache[k].val))
          ELSE s.w.disk[k] = disk[k]

\* C12 (as claimed), under SpecSeq: whatever create, lookup, callUpdateMemFn
\* and save calls came before, after a save() now a fresh cache on the same
\* storage returns for every key with a present entry exactly the value the
\* entry has.
C12_PersistenceRoundTrip ==
  \A k \in Keys :
    m_cache[k].ptr =>
      lookup(fresh(save(World).w), k).ret = Ret(TRUE, m_cache[k].val)

\* C13: for every table and storage state, a second save() right after a
\* save() leaves storage exactly as the first left it.
C13_SaveIdempotent ==
  LET s1 == save(World).w
  IN save(s1).w.disk = s1.disk

\* C13 witness: a save has just written a non-empty in-memory value to the
\* file of its key.
C13_Witness ==
  /\ last.op = "save"
  /\ \E k \in Keys :
       /\ m_cache[k].ptr /\ m_cache[k].val # <<>>
       /\ disk[k] = File(Serialize(m_cache[k].val))

\* C14: callUpdateMemFn(k, push_back, c) never changes storage or trash or
\* the entry of another key. When the lookup of k (from the table, or
\* loading it) reports absence it returns false and leaves what the lookup
\* left; otherwise it returns true, the entry of k holds the looked-up value
\* with c appended, and a following lookup(k) returns that value.
C14_UpdateInMemoryOnly ==
  \A k \in Keys, c \in Char :
    LET l == lookup(World, k)
        u == callUpdateMemFn(World, k, c)
    IN /\ u.w.disk = disk /\ u.w.trash = trash /\ u.w.trashRoot = trashRoot
       /\ \A j \in Keys \ {k} : u.w.m_cache[j] = m_cache[j]
       /\ ~l.ret.ok => u = Out(l.w, Ret(FALSE, <<>>))
       /\ l.ret.ok =>
            /\ u.ret = Ret(TRUE, <<>>)
            /\ u.w.m_cache[k] = Present(push_back(l.ret.val, c))
            /\ lookup(u.w, k).ret = Ret(TRUE, push_back(l.ret.val, c))

\* C14 witness: a callUpdateMemFn has succeeded and the in-memory value of
\* its key now differs from what storage holds for it.
C14_Witness ==
  /\ last.op = "callUpdateMemFn" /\ last.ok
  /\ disk[last.k].file
  /\ m_cache[last.k].ptr
  /\ m_cache[last.k].val # <<>>
  /\ disk[last.k].data = <<>>

\* What a load of k from the storage d reports to the caller.
Stored(d, k) ==
  IF d[k].file THEN Ret(TRUE, Deserialize(d[k].data)) ELSE Ret(FALSE, <<>>)

\* C15: callGetterMemFn(k, front) changes no storage, no trash and no
\* present entry (its only effect on the table is that of the lookup of k).
\* It returns (false, T()) when k has a negative entry or has neither entry
\* nor file, (true, front of the in-memory value) when k has a present
\* entry, and (true, front of the loaded value) when k is loaded by the call.
C15_GetterContract ==
  \A k \in Keys :
    LET g == callGetterMemFn(World, k)
    IN /\ g.w = lookup(World, k).w
       /\ g.w.disk = disk /\ g.w.trash = trash /\ g.w.trashRoot = trashRoot
       /\ \A j \in Keys : m_cache[j].ptr => g.w.m_cache[j] = m_cache[j]
       /\ (m_cache[k] = NullPtr \/ (~m_cache[k].in /\ ~disk[k].file))
            => g.ret = Ret(FALSE, DefaultT)
       /\ m_cache[k].ptr => g.ret = Ret(TRUE, getter(m_cache[k].val))
       /\ (~m_cache[k].in /\ disk[k].file)
            => g.ret = Ret(TRUE, getter(Deserialize(disk[k].data)))

\* C15 witness: a callGetterMemFn has reported not-found for a key with a
\* negative entry while another key has a present, non-empty entry.
C15_Witness ==
  /\ last.op = "callGetterMemFn" /\ ~last.ok
  /\ m_cache[last.k] = NullPtr
  /\ \E j \in Keys \ {last.k} : m_cache[j].ptr /\ m_cache[j].val # <<>>

\* C16: erase(k) leaves storage, trash and the entries of the other keys as
\* they were; after it the table has no entry of k and the next lookup(k)
\* answers from storage (the stored content, or not-found); on a key without
\* entry it changes nothing.
C16_EraseMemoryOnly ==
  \A k \in Keys :
    LET e == erase(World, k)
    IN /\ e.w.disk = disk /\ e.w.trash = trash /\ e.w.trashRoot = trashRoot
       /\ ~e.w.m_cache[k].in
       /\ \A j \in Keys \ {k} : e.w.m_cache[j] = m_cache[j]
       /\ ~m_cache[k].in => e = Out(World, Void)
       /\ lookup(e.w, k).ret = Stored(disk, k)

\* C16 witness: an erase has dropped the entry of a key whose file exists,
\* and the other key still has its present entry with an unsaved value.
C16_Witness ==
  /\ last.op = "erase"
  /\ ~m_cache[last.k].in /\ disk[last.k].file
  /\ \E j \in Keys \ {last.k} :
       /\ m_cache[j].ptr /\ disk[j].file
       /\ m_cache[j].val # Deserialize(disk[j].data)

\* C17 (as claimed): after clear() the table has no entry, the value.txt of
\* every key that had a present entry holds the in-memory value the entry
\* had, and a following lookup of such a key returns that value.
C17_ClearSavesThenEmpties ==
  LET c == clear(World)
  IN \A k \in Keys :
       /\ ~c.w.m_cache[k].in
       /\ m_cache[k].ptr =>
            /\ c.w.disk[k] = File(Serialize(m_cache[k].val))
            /\ lookup(c.w, k).ret = Ret(TRUE, m_cache[k].val)

\* C18: forceClear() leaves storage and trash as they were and the table
\* without any entry; a following lookup of any key answers from storage
\* (the stored content, or not-found), whatever the entry held before.
C18_ForceClearMemoryOnly ==
  LET f == forceClear(World)
  IN /\ f.w.disk = disk /\ f.w.trash = trash /\ f.w.trashRoot = trashRoot
     /\ \A k \in Keys :
          /\ ~f.w.m_cache[k].in
          /\ lookup(f.w, k).ret = Stored(disk, k)

\* C18 witness: forceClear has emptied the table while storage holds a file.
C18_Witness ==
  /\ last.op = "forceClear"
  /\ \A k \in Keys : ~m_cache[k].in
  /\ \E k \in Keys : disk[k].file /\ disk[k].data # <<>>

\* C19: refresh(k) leaves storage, trash and the entries of the other keys
\* as they were. When k has an entry (present or negative) the entry becomes
\* present with the stored content, or negative when value.txt does not
\* exist; when k has no entry nothing changes and no entry is added.
C19_RefreshReloads ==
  \A k \in Keys :
    LET r == refresh(World, k)
    IN /\ r.w.disk = disk /\ r.w.trash = trash /\ r.w.trashRoot = trashRoot
       /\ \A j \in Keys \ {k} : r.w.m_cache[j] = m_cache[j]
       /\ ~m_cache[k].in => r = Out(World, Void)
       /\ (m_cache[k].in /\ disk[k].file)
            => r.w.m_cache[k] = Present(Deserialize(disk[k].data))
       /\ (m_cache[k].in /\ ~disk[k].file) => r.w.m_cache[k] = NullPtr

\* C19 witness: a refresh has left its key with the stored content while
\* the other key, whose file exists, still has no entry.
C19_Witness ==
  /\ last.op = "refresh"
  /\ disk[last.k].file
  /\ m_cache[last.k] = Present(Deserialize(disk[last.k].data))
  /\ \E j \in Keys \ {last.k} : ~m_cache[j].in /\ disk[j].file

\* A negative entry of k answers every call: lookup, callUpdateMemFn and
\* callGetterMemFn report absence and change nothing, whatever storage holds
\* for k; and when value.txt exists, refresh(k) followed by lookup(k) returns
\* the stored value.
NegativeAnswers(k) ==
  /\ lookup(World, k) = Out(World, Ret(FALSE, <<>>))
  /\ \A c \in Char : callUpdateMemFn(World, k, c) = Out(World, Ret(FALSE, <<>>))
  /\ callGetterMemFn(World, k) = Out(World, Ret(FALSE, DefaultT))
  /\ disk[k].file =>
       lookup(refresh(World, k).w, k).ret = Ret(TRUE, Deserialize(disk[k].data))

\* A step in which the negative entry of k, stale because value.txt of k
\* exists, stops being the entry of k.
StaleDropped(k) ==
  /\ m_cache[k] = NullPtr /\ disk[k].file
  /\ m_cache'[k] # NullPtr

\* C20: in every state a negative entry of k makes lookup(k),
\* callUpdateMemFn(k) and callGetterMemFn(k) report absence, also when
\* storage for k has appeared out of band, and after refresh(k) lookup(k)
\* returns the stored value; and a stale negative entry goes away only in
\* a refresh of k, an erase of k (called directly or by remove), a clear or
\* a forceClear, never in a lookup, a member-function call, a create, a
\* save or a change of storage.
C20_NegativeEntrySticks ==
  /\ [](\A k \in Keys : m_cache[k] = NullPtr => NegativeAnswers(k))
  /\ [][\A k \in Keys :
          StaleDropped(k) =>
            \/ last'.op \in {"clear", "forceClear"}
            \/ last'.op \in {"refresh", "erase", "remove"} /\ last'.k = k]_vars

\* C20 witness: a lookup has just reported not-found from a negative entry
\* although value.txt of its key exists with content.
C20_Witness ==
  /\ last.op = "lookup" /\ ~last.ok
  /\ m_cache[last.k] = NullPtr
  /\ disk[last.k].file /\ disk[last.k].data # <<>>

C22_CreateRefreshes ==
  \A k \in Keys, v \in Strings :
    LET c == create(World, k, v)
    IN c.ret.ok =>
         /\ m_cache[k].in => c.w.m_cache[k] = Present(v)
         /\ ~m_cache[k].in => ~c.w.m_cache[k].in
         /\ lookup(c.w, k).ret = Ret(TRUE, v)

\* ------------------------------------------------------------------------
\* Claims checked under SpecEL and SpecKeys (EntryLocking)
\* ------------------------------------------------------------------------

\* Thread t is inside the entry-locked critical section of key k: LockEntry(k)
\* has returned to its public call and the guard of that call has not yet
\* unlocked the mutex.
InCS(t, k) ==
  /\ call[t].op \in KeyOps /\ call[t].k = k
  /\ \/ pc[t] \in {"cs", "post", "exit"}
     \/ nest[t] = 1

\* Thread t is inside save() with the collection lock: LockAll() has
\* returned and the loop over the table is about to run.
InSave(t) == pc[t] = "sv"

\* C6 (as claimed): when the two threads each call callUpdateMemFn(1,
\* push_back, 'a') on the present key 1, neither call hangs, each call that
\* has returned has returned true, and when both have returned the
\* in-memory value holds both appended characters.
C6_NoLostUpdate ==
  (\A t \in ELThreads : calls[t] = 1 /\ call[t].op = "callUpdateMemFn" /\ call[t].k = 1)
  => /\ \A t \in ELThreads : pc[t] # "deadlocked"
     /\ \A t \in ELThreads : pc[t] = "idle" => ret[t] = Ret(TRUE, <<>>)
     /\ (\A t \in ELThreads : pc[t] = "idle")
          => m_cache[1] = Present(ELValue \o <<"a", "a">>)

\* C7 (as claimed): no two threads are inside the entry-locked critical
\* section of the same key.
C7_MutualExclusion ==
  \A t \in Threads, u \in Threads, k \in Keys :
    t # u => ~(InCS(t, k) /\ InCS(u, k))

\* C8 (as claimed): while a thread is inside save() with the collection
\* lock, no other thread is inside save() with it, and no other thread is
\* inside the critical section of a key whose mutex existed when the call
\* began.
C8_CollectionLockExcludes ==
  \A t \in Threads :
    InSave(t) =>
      \A u \in Threads \ {t} :
        /\ ~InSave(u)
        /\ \A k \in known[t] : ~InCS(u, k)

\* C9 (as claimed): the LockAll() that save() makes inside clear(), by the
\* thread that has acquired the collection lock, passes the test of
\* recursive acquisition and so returns at once.
C9_NestedLockAllReturns ==
  \A t \in Threads :
    (call[t].op = "clear" /\ nest[t] = 1 /\ pc[t] \in {"la_check", "la_global"})
      => (pc[t] = "la_check" /\ locked_ /\ owner_thread_ = t)

\* C10 (as claimed): a thread that requests the entry lock of a key whose
\* mutex is free is never kept waiting by a thread that is itself blocked
\* on the entry mutex of another key.
C10_KeysIndependent ==
  \A t \in Threads :
    (pc[t] = "le_global" /\ entry_mutexes_[call[t].k] \in {NoMutex, Free})
      => ~\E u \in Threads \ {t} :
            /\ global_mutex_ = u
            /\ pc[u] = "le_entry"
            /\ call[u].k # call[t].k
            /\ entry_mutexes_[call[u].k] \notin {NoMutex, Free, u}

\* C23 (as claimed): no thread is ever at the lock() of an entry mutex it
\* holds itself, and no call hangs in such a lock().
C23_NoSelfWait ==
  \A t \in Threads :
    /\ ~(pc[t] = "le_entry" /\ entry_mutexes_[call[t].k] = t)
    /\ pc[t] # "deadlocked"

\* C24 (as claimed): while the thread running clear() is between the return
\* of its inner save() and the end of forceClear, it holds the global mutex
\* and every entry mutex, and no other thread is inside a critical section
\* of a key, inside save() or inside forceClear.
C24_ClearHoldsLock ==
  \A t \in Threads :
    (call[t].op = "clear" /\ pc[t] = "fc") =>
      /\ global_mutex_ = t
      /\ \A k \in Known : entry_mutexes_[k] = t
      /\ \A u \in Threads \ {t} :
           /\ \A k \in Keys : ~InCS(u, k)
           /\ ~InSave(u)
           /\ pc[u] # "fc"

\* Thread t holds the entry mutex of k; thread t holds the collection lock.
HoldsEntry(t, k) == k \in Keys /\ entry_mutexes_[k] = t
HoldsAll(t) ==
  /\ global_mutex_ = t /\ locked_ /\ owner_thread_ = t
  /\ \A k \in Known : entry_mutexes_[k] = t

\* C25 (as claimed): a thread that is about to read or write the table (in
\* the body of a call on a key, in the loop of save, in forceClear, or in
\* an erase or forceClear called directly) holds the entry mutex of the key
\* concerned or the collection lock.
C25_TableAccessLocked ==
  \A t \in Threads :
    /\ pc[t] = "cs" => (HoldsEntry(t, call[t].k) \/ HoldsAll(t))
    /\ pc[t] \in {"sv", "fc"} => HoldsAll(t)
    /\ (pc[t] = "direct" /\ call[t].op = "erase")
         => (HoldsEntry(t, call[t].k) \/ HoldsAll(t))
    /\ (pc[t] = "direct" /\ call[t].op = "forceClear") => HoldsAll(t)

\* C26 (as claimed): a thread that is about to run the loop of
\* CollectionMutex::unlock() holds the global mutex and every entry mutex
\* of the map, and a thread about to run global_mutex().unlock() holds the
\* global mutex.
C26_UnlockOnlyOwn ==
  \A t \in Threads :
    /\ pc[t] = "ul_entries" =>
         /\ global_mutex_ = t
         /\ \A k \in Known : entry_mutexes_[k] = t
    /\ pc[t] = "ul_global" => global_mutex_ = t

\* C27 (as claimed): no thread inside LockEntry waits for an entry mutex
\* that another thread holds while it holds the global mutex itself.
C27_GuardNotHeldWaiting ==
  \A t \in Threads :
    ~(/\ pc[t] = "le_entry"
      /\ global_mutex_ = t
      /\ entry_mutexes_[call[t].k] \in Threads \ {t})

\* Thread t holds an entry mutex as part of the collection lock: it is in
\* the loop of lock(), in the body of save or clear, or before the loop of
\* unlock().
InCollection(t) == pc[t] \in {"la_entries", "la_check", "sv", "fc", "ul_entries"}

\* C28 (as claimed): lock() takes an entry mutex only while it holds the
\* global mutex and only one that comes later in key order than those it
\* took before; when unlock() releases the global mutex the thread holds no
\* entry mutex any more; and a thread that holds an entry mutex as part of
\* the collection lock holds the global mutex too.
C28_LockOrder ==
  /\ [][\A t \in Threads, k \in Keys :
          (pc[t] = "la_entries" /\ entry_mutexes_[k] # t /\ entry_mutexes_'[k] = t)
            => (global_mutex_ = t /\ k > iter[t])]_vars
  /\ [](\A t \in Threads :
          pc[t] = "ul_global" => \A k \in Keys : entry_mutexes_[k] # t)
  /\ [](\A t \in Threads :
          (InCollection(t) /\ \E k \in Keys : entry_mutexes_[k] = t)
            => global_mutex_ = t)

\* Thread t is inside save() holding the collection lock (lock() has set
\* locked_ and owner_thread_ for t) while thread u holds the entry mutex of
\* a key that had no mutex when t's LockAll() began, and u's operator[] has
\* inserted that key into the table.
WeakSpot(t, u) ==
  /\ InSave(t) /\ locked_ /\ owner_thread_ = t
  /\ call[u].op = "lookup" /\ pc[u] = "exit"
  /\ call[u].k \notin known[t]
  /\ entry_mutexes_[call[u].k] = u
  /\ m_cache[call[u].k].in

Blocked(t) == LockTarget(t) \in Threads \ {t}

\* C30: with threads running lookup, refresh, remove and save on the same
\* or on different keys, in no state is every thread that has a call under
\* way blocked at a mutex, and under fair scheduling every call that has
\* begun returns.
C30_NeverDeadlock ==
  /\ []((\E t \in Threads : pc[t] # "idle")
          => \E t \in Threads : pc[t] # "idle" /\ ~Blocked(t))
  /\ \A t \in Threads : (pc[t] # "idle") ~> (pc[t] = "idle")

\* All three threads have a call under way and two of them are blocked:
\* save() holds the global mutex and waits for an entry mutex, whose holder
\* is in its critical section, and a third call waits for the global mutex.
C30_Witness ==
  \E t \in Threads : \E u \in Threads \ {t} : \E v \in Threads \ {t, u} :
    /\ pc[t] = "cs"
    /\ call[u].op = "save" /\ pc[u] = "la_entries" /\ Blocked(u)
    /\ pc[v] = "le_global" /\ Blocked(v)

\* Thread t holds the entry mutex of its key and its next step changes the
\* std::map: operator[] inserts the key it did not find, refresh replaces
\* the object of the entry it found, remove erases the entry after the
\* rename.
ChangesTable(t) ==
  /\ pc[t] = "cs" /\ nest[t] = 0
  /\ \/ call[t].op = "lookup" /\ ~m_cache[call[t].k].in
     \/ call[t].op = "refresh" /\ m_cache[call[t].k].in
     \/ /\ call[t].op = "remove" /\ m_cache[call[t].k].in
        /\ remove(World, call[t].k).ret.ok

\* C31 (as claimed): no two threads are at a change of the table at the
\* same time, whether their keys are the same or different.
C31_TableChangesExcluded ==
  \A t \in Threads : \A u \in Threads \ {t} :
    ~(ChangesTable(t) /\ ChangesTable(u))

\* ------------------------------------------------------------------------
\* Further claims checked under Spec
\* ------------------------------------------------------------------------

\* C32 (as claimed): create(k, v) fails only when value.txt of k exists (a
\* missing directory can always be created here); in particular, when the
\* file is absent and its directory exists already, create returns true and
\* storage holds what Serialize writes for v.
C32_CreateFailsOnlyOnExisting ==
  \A k \in Keys, v \in Strings :
    LET c == create(World, k, v)
    IN /\ ~c.ret.ok => disk[k].file
       /\ (~disk[k].file /\ disk[k].dir) =>
            (c.ret = Ret(TRUE, <<>>) /\ c.w.disk[k] = File(Serialize(v)))

\* C33 (as claimed): whenever value.txt of k does not exist, with or
\* without its directory, remove(k) returns false and leaves storage, trash
\* and table as they were.
C33_RemoveFailsWithoutFile ==
  \A k \in Keys :
    ~disk[k].file => remove(World, k) = Out(World, Ret(FALSE, <<>>))

\* ------------------------------------------------------------------------
\* Claims checked under SpecOwn (single caller, storage changed by the
\* cache only)
\* ------------------------------------------------------------------------

\* C34 (as claimed): whenever value.txt of k exists, whatever the trash
\* tree holds from earlier removals, remove(k) returns true and leaves
\* neither a storage location nor a table entry of k.
C34_RemoveSucceedsAgain ==
  \A k \in Keys :
    disk[k].file =>
      LET r == remove(World, k)
      IN /\ r.ret.ok /\ ~r.ret.threw
         /\ ~r.w.disk[k].dir
         /\ ~r.w.m_cache[k].in

\* C35: the table agrees with storage about existence (a present entry has
\* its value.txt, a negative entry has none), and save() creates no
\* value.txt for a key that has none, so neither for a key that remove
\* moved to trash.
C35_TableAgreesWithStorage ==
  \A k \in Keys :
    /\ (m_cache[k].in /\ m_cache[k].ptr) => disk[k].file
    /\ (m_cache[k].in /\ ~m_cache[k].ptr) => ~disk[k].file
    /\ ~disk[k].file => ~save(World).w.disk[k].file

\* C35 witness: save() has just run with one key present in table and
\* storage, and the other key removed to trash earlier, looked up since
\* (negative entry) and still without storage.
C35_Witness ==
  /\ last.op = "save"
  /\ \E k \in Keys : \E j \in Keys \ {k} :
       /\ m_cache[k].in /\ m_cache[k].ptr /\ disk[k].file
       /\ trash[j].file /\ m_cache[j] = NullPtr /\ ~disk[j].dir

====
